---- MODULE Spec2Model ----
(***************************************************************************)
(* A model of the inventory and billing core of fp.py: the classes         *)
(* Product, OrderItem, Sale, InventoryManager and BillingSystem.           *)
(*                                                                         *)
(* Python objects are kept in two heaps so that object identity is         *)
(* preserved: `heap` holds the Product objects and `lines` the OrderItem   *)
(* objects; a reference is an index into its heap.  The catalog            *)
(* (InventoryManager.products) maps a product id to a Product reference,   *)
(* the cart is a list of OrderItem references, and a Sale holds the list   *)
(* of OrderItem references that cart.copy() gave it.                       *)
(*                                                                         *)
(* Money is counted in cents.  Prices are whole multiples of 100 cents so  *)
(* that a percentage discount is an exact amount.  A discount is a Python  *)
(* float and may be float('nan'); prices and quantities are finite.        *)
(***************************************************************************)
EXTENDS Integers, Sequences, FiniteSets, TLC

\* ------------------------------------------------------------------ bounds

\* Product objects ever constructed (Product.__init__ calls).
MaxObjs == 2
\* OrderItem objects ever constructed (OrderItem.__init__ calls).
MaxItems == 2
\* Sales ever appended to the history.
MaxSales == 1
\* Largest quantity a cart line is let to grow to.
MaxLineQty == 3

\* ------------------------------------------------------------------ inputs

ProductIds == {"P1", "P2"}
\* Prices a caller passes: 0 is the rejected boundary, the others are valid.
PriceInputs == {0, 100, 200}
\* Stock quantities a caller passes: -1 is rejected.
StockInputs == {-1, 2}
\* Quantities a caller passes to add_to_cart: 0 is rejected, 3 is more than
\* any stock a caller sets.
QtyInputs == {0, 1, 2, 3}
\* Quantities a caller passes to remove_from_cart (int() accepts a sign).
RemoveInputs == {-1, 0, 1}

\* float('nan'), which float(input(...)) gives for the text "nan": a value
\* apart from every amount, read only through the operators below.
NaN == -1000000
IsNaN(x) == x = NaN
\* Python's < and > on floats: False as soon as one side is nan.
Less(a, b) == ~IsNaN(a) /\ ~IsNaN(b) /\ a < b
Greater(a, b) == ~IsNaN(a) /\ ~IsNaN(b) /\ a > b
\* Python's - on floats: nan as soon as one side is nan.
Minus(a, b) == IF IsNaN(a) \/ IsNaN(b) THEN NaN ELSE a - b
\* total * (value / 100)
Percent(total, value) ==
    IF IsNaN(total) \/ IsNaN(value) THEN NaN ELSE (total * value) \div 100

\* An optional argument is a tuple: None (the Python None, the argument left
\* out) is the empty one, and a supplied value v is <<v>>.
None == << >>
Some(v) == <<v>>
Val(arg) == arg[1]
Optional(S) == {None} \cup { Some(v) : v \in S }

VARIABLES
    heap,        \* Product objects: Seq of [product_id, name, price, stock_quantity]
    products,    \* InventoryManager.products: a dict, product id -> Product ref
    lines,       \* OrderItem objects: Seq of [product, quantity, total]
    cart,        \* BillingSystem.cart: Seq of OrderItem refs
    sales,       \* BillingSystem.sales: Seq of Sale
    data_file,   \* contents of the inventory CSV file
    sales_file,  \* contents of the sales CSV file
    ret          \* what the last call did: [op, status, value]

vars == <<heap, products, lines, cart, sales, data_file, sales_file, ret>>

\* ----------------------------------------------------------------- helpers

\* Product.__init__
Product(product_id, name, price, stock_quantity) ==
    [product_id |-> product_id, name |-> name, price |-> price,
     stock_quantity |-> stock_quantity]

\* OrderItem.__init__: the total is cached at construction.
OrderItem(product, quantity) ==
    [product |-> product, quantity |-> quantity,
     total |-> heap[product].price * quantity]

\* Sale.__init__
Sale(items, total_amount, discount) ==
    [items |-> items, total_amount |-> total_amount, discount |-> discount,
     final_amount |-> Minus(total_amount, discount)]

\* InventoryManager.get_product: dict.get, None for a missing key.
get_product(product_id) ==
    IF product_id \in DOMAIN products THEN Some(products[product_id]) ELSE None

\* The rows save_data writes: one per catalog entry, from Product.to_dict.
CatalogRows(objs, dict) == { objs[dict[id]] : id \in DOMAIN dict }

\* The rows save_sales writes: one per Sale, without its items.
SalesRows(history) ==
    [ i \in DOMAIN history |->
        [total_amount |-> history[i].total_amount,
         discount |-> history[i].discount,
         final_amount |-> history[i].final_amount] ]

\* What a whole-file rewrite can do: succeed, fail in open() (the file is left
\* as it was), or fail while writing (open(..., 'w') has truncated the file
\* and only part of the rows got written).
IoOutcomes == {"written", "open_error", "write_error"}
\* A file: "absent" (never written), "written" with its rows, or "partial"
\* (cut short by a failed write; which rows got through is left open).
File(state, rows) == [state |-> state, rows |-> rows]

\* The file after the `with open(..., 'w')` block of save_data / save_sales.
FileAfter(io, old, rows, norows) ==
    CASE io = "written"     -> File("written", rows)
      [] io = "open_error"  -> old
      [] io = "write_error" -> File("partial", norows)

\* save_data / save_sales return True unless an exception was caught.
Saved(io) == io = "written"

\* ret.status: "ok" (the call returned True, a value or a Sale), "rejected"
\* (a check refused the call: False, None or 0 was returned before anything
\* was saved), "save_failed" (False because save_data returned False),
\* "raised" (an exception left the call).
Result(op, status, value) == [op |-> op, status |-> status, value |-> value]

\* add_product / update_product: the price check.
PriceRejected(price) == price <= 0

\* add_product / update_product: the stock check.
StockRejected(stock_quantity) == stock_quantity < 0

\* add_to_cart: the stock check passes.
InStock(stock_quantity, quantity) == ~(stock_quantity < quantity)

\* The cached total of a line: product.price * quantity.
LineTotal(price, quantity) == price * quantity

\* remove_from_cart: the whole line goes.
RemovesLine(quantity, line_quantity) ==
    quantity = None \/ Val(quantity) >= line_quantity

\* A discount check that forgets the upper limit.
DiscountRejectedNoUpper(discount, total) == Less(discount, 0)

\* checkout: the discount check fails.
DiscountRejected(discount, total) ==
    Less(discount, 0) \/ Greater(discount, total)

\* The positions of the cart whose line is for product_id
\* (item.product.product_id == product_id).
Matches(product_id) ==
    { i \in DOMAIN cart : heap[lines[cart[i]].product].product_id = product_id }

\* The first position a `for item in self.cart` loop finds.
First(S) == CHOOSE i \in S : \A j \in S : i <= j

\* sum(item.total for item in self.cart)
RECURSIVE SumTotals(_, _)
SumTotals(objs, refs) ==
    IF refs = << >> THEN 0
    ELSE objs[Head(refs)].total + SumTotals(objs, Tail(refs))

CartTotal == SumTotals(lines, cart)

\* list.pop(i)
Pop(seq, i) == SubSeq(seq, 1, i - 1) \o SubSeq(seq, i + 1, Len(seq))

\* A stock update that takes one unit whatever the line's quantity.
DecrementByOne(stock_quantity, quantity) == stock_quantity - 1

\* checkout: product.stock_quantity -= item.quantity
Decrement(stock_quantity, quantity) == stock_quantity - quantity

\* checkout's loop `for item in self.cart`, run over the lines refs on the
\* Product heap objs: each line's product is looked up again by id and its
\* stock_quantity lowered by the line's quantity.  The loop stops at the first
\* line whose id is no longer a key of the catalog: get_product gives None and
\* `product.stock_quantity` raises AttributeError.
RECURSIVE StockLoop(_, _)
StockLoop(objs, refs) ==
    IF refs = << >> THEN [heap |-> objs, raised |-> FALSE]
    ELSE LET item == lines[Head(refs)]
             product == get_product(heap[item.product].product_id)
         IN  IF product = None
             THEN [heap |-> objs, raised |-> TRUE]
             ELSE StockLoop(
                    [objs EXCEPT ![Val(product)].stock_quantity =
                                     Decrement(@, item.quantity)],
                    Tail(refs))

\* ------------------------------------------------------------------- start

\* A fresh start: neither CSV file exists, so load_data gives {} and
\* load_sales gives [].
Init ==
    /\ heap = << >>
    /\ products = << >>
    /\ lines = << >>
    /\ cart = << >>
    /\ sales = << >>
    /\ data_file = File("absent", {})
    /\ sales_file = File("absent", << >>)
    /\ ret = Result("init", "ok", 0)

\* ----------------------------------------------------------------- catalog

\* InventoryManager.add_product
add_product(product_id, name, price, stock_quantity, io) ==
    IF \/ product_id \in DOMAIN products
       \/ PriceRejected(price)
       \/ StockRejected(stock_quantity)
    THEN /\ ret' = Result("add_product", "rejected", 0)
         /\ UNCHANGED <<heap, products, lines, cart, sales, data_file, sales_file>>
    ELSE /\ Len(heap) < MaxObjs
         /\ heap' = Append(heap, Product(product_id, name, price, stock_quantity))
         /\ products' = (product_id :> Len(heap) + 1) @@ products
         /\ data_file' = FileAfter(io, data_file, CatalogRows(heap', products'), {})
         /\ ret' = Result("add_product", IF Saved(io) THEN "ok" ELSE "save_failed", 0)
         /\ UNCHANGED <<lines, cart, sales, sales_file>>

\* InventoryManager.update_product: the fields are assigned one after the
\* other on the Product object itself, each check returning on the spot.
update_product(product_id, name, price, stock_quantity, io) ==
    LET p  == products[product_id]
        h1 == IF name # None THEN [heap EXCEPT ![p].name = Val(name)] ELSE heap
        h2 == IF price # None THEN [h1 EXCEPT ![p].price = Val(price)] ELSE h1
        h3 == IF stock_quantity # None
              THEN [h2 EXCEPT ![p].stock_quantity = Val(stock_quantity)] ELSE h2
    IN  IF product_id \notin DOMAIN products
        THEN /\ ret' = Result("update_product", "rejected", 0)
             /\ UNCHANGED <<heap, products, lines, cart, sales, data_file, sales_file>>
        ELSE IF price # None /\ PriceRejected(Val(price))
        THEN /\ heap' = h1
             /\ ret' = Result("update_product", "rejected", 0)
             /\ UNCHANGED <<products, lines, cart, sales, data_file, sales_file>>
        ELSE IF stock_quantity # None /\ StockRejected(Val(stock_quantity))
        THEN /\ heap' = h2
             /\ ret' = Result("update_product", "rejected", 0)
             /\ UNCHANGED <<products, lines, cart, sales, data_file, sales_file>>
        ELSE /\ heap' = h3
             /\ data_file' = FileAfter(io, data_file, CatalogRows(h3, products), {})
             /\ ret' = Result("update_product",
                              IF Saved(io) THEN "ok" ELSE "save_failed", 0)
             /\ UNCHANGED <<products, lines, cart, sales, sales_file>>

\* InventoryManager.delete_product: the key is dropped; the Product object
\* lives on wherever a cart line or a sale still refers to it.
delete_product(product_id, io) ==
    IF product_id \notin DOMAIN products
    THEN /\ ret' = Result("delete_product", "rejected", 0)
         /\ UNCHANGED <<heap, products, lines, cart, sales, data_file, sales_file>>
    ELSE /\ products' = [id \in DOMAIN products \ {product_id} |-> products[id]]
         /\ data_file' = FileAfter(io, data_file, CatalogRows(heap, products'), {})
         /\ ret' = Result("delete_product",
                          IF Saved(io) THEN "ok" ELSE "save_failed", 0)
         /\ UNCHANGED <<heap, lines, cart, sales, sales_file>>

\* -------------------------------------------------------------------- cart

\* BillingSystem.add_to_cart
add_to_cart(product_id, quantity) ==
    IF \/ get_product(product_id) = None
       \/ quantity <= 0
       \/ ~InStock(heap[products[product_id]].stock_quantity, quantity)
    THEN /\ ret' = Result("add_to_cart", "rejected", 0)
         /\ UNCHANGED <<heap, products, lines, cart, sales, data_file, sales_file>>
    ELSE IF Matches(product_id) # {}
    THEN LET item == cart[First(Matches(product_id))]
             q    == lines[item].quantity + quantity
         IN  /\ q <= MaxLineQty
             /\ lines' = [lines EXCEPT
                             ![item].quantity = q,
                             ![item].total =
                                 LineTotal(heap[lines[item].product].price, q)]
             /\ ret' = Result("add_to_cart", "ok", 0)
             /\ UNCHANGED <<heap, products, cart, sales, data_file, sales_file>>
    ELSE /\ Len(lines) < MaxItems
         /\ lines' = Append(lines, OrderItem(products[product_id], quantity))
         /\ cart' = Append(cart, Len(lines) + 1)
         /\ ret' = Result("add_to_cart", "ok", 0)
         /\ UNCHANGED <<heap, products, sales, data_file, sales_file>>

\* BillingSystem.remove_from_cart
remove_from_cart(product_id, quantity) ==
    IF Matches(product_id) = {}
    THEN /\ ret' = Result("remove_from_cart", "rejected", 0)
         /\ UNCHANGED <<heap, products, lines, cart, sales, data_file, sales_file>>
    ELSE LET i    == First(Matches(product_id))
             item == cart[i]
         IN  IF RemovesLine(quantity, lines[item].quantity)
             THEN /\ cart' = Pop(cart, i)
                  /\ ret' = Result("remove_from_cart", "ok", 0)
                  /\ UNCHANGED <<heap, products, lines, sales, data_file, sales_file>>
             ELSE LET q == lines[item].quantity - Val(quantity)
                  IN  /\ q <= MaxLineQty
                      /\ lines' = [lines EXCEPT
                                      ![item].quantity = q,
                                      ![item].total =
                                          LineTotal(heap[lines[item].product].price, q)]
                      /\ ret' = Result("remove_from_cart", "ok", 0)
                      /\ UNCHANGED <<heap, products, cart, sales, data_file, sales_file>>

\* BillingSystem.view_cart: prints the lines and the sum of their totals;
\* ret.value is the total printed.
view_cart ==
    /\ ret' = IF cart = << >>
              THEN Result("view_cart", "rejected", 0)
              ELSE Result("view_cart", "ok", CartTotal)
    /\ UNCHANGED <<heap, products, lines, cart, sales, data_file, sales_file>>

\* Discount kinds and values a caller passes to apply_discount.
DiscountTypes == {"percentage", "fixed", "coupon"}
ValueInputs == {-1, 50, 101, NaN}

\* BillingSystem.apply_discount: computes and returns a discount (ret.value);
\* nothing is stored.
apply_discount(discount_type, value) ==
    /\ ret' =
         IF cart = << >> THEN Result("apply_discount", "rejected", 0)
         ELSE IF discount_type = "percentage"
         THEN IF Less(value, 0) \/ Greater(value, 100)
              THEN Result("apply_discount", "rejected", 0)
              ELSE Result("apply_discount", "ok", Percent(CartTotal, value))
         ELSE IF discount_type = "fixed"
         THEN IF Less(value, 0) \/ Greater(value, CartTotal)
              THEN Result("apply_discount", "rejected", 0)
              ELSE Result("apply_discount", "ok", value)
         ELSE Result("apply_discount", "rejected", 0)
    /\ UNCHANGED <<heap, products, lines, cart, sales, data_file, sales_file>>

\* Discounts a caller passes to checkout, around the subtotal.
DiscountInputs(total) == {-1, 0, total, total + 1, NaN}

\* BillingSystem.checkout.  io_sales and io_data are what save_sales and
\* save_data do; their results are ignored by checkout.
checkout(discount, io_sales, io_data) ==
    IF cart = << >> \/ DiscountRejected(discount, CartTotal)
    THEN /\ ret' = Result("checkout", "rejected", 0)
         /\ UNCHANGED <<heap, products, lines, cart, sales, data_file, sales_file>>
    ELSE LET sale == Sale(cart, CartTotal, discount)
             loop == StockLoop(heap, cart)
         IN  /\ Len(sales) < MaxSales
             /\ sales' = Append(sales, sale)
             /\ sales_file' = FileAfter(io_sales, sales_file, SalesRows(sales'), << >>)
             /\ heap' = loop.heap
             /\ IF loop.raised
                THEN /\ ret' = Result("checkout", "raised", 0)
                     /\ UNCHANGED <<products, lines, cart, data_file>>
                ELSE /\ data_file' = FileAfter(io_data, data_file,
                                               CatalogRows(loop.heap, products), {})
                     /\ cart' = << >>
                     /\ ret' = Result("checkout", "ok", 0)
                     /\ UNCHANGED <<products, lines>>

\* ------------------------------------------------------------- the program

\* One call of the API, with the ids, names and prices a caller may pass and
\* the outcomes a file rewrite may have.
Step(ids, names, prices, ios) ==
    \/ \E id \in ids, n \in names, p \in prices, q \in StockInputs, io \in ios :
          add_product(id, n, p, q, io)
    \/ \E id \in ids, n \in Optional(names), p \in Optional(prices),
          q \in Optional(StockInputs), io \in ios :
            update_product(id, n, p, q, io)
    \/ \E id \in ids, io \in ios : delete_product(id, io)
    \/ \E id \in ids, q \in QtyInputs : add_to_cart(id, q)
    \/ \E id \in ids, q \in Optional(RemoveInputs) : remove_from_cart(id, q)
    \/ view_cart
    \/ \E t \in DiscountTypes, v \in ValueInputs \cup {CartTotal, CartTotal + 1} :
          apply_discount(t, v)
    \/ \E d \in DiscountInputs(CartTotal), io1 \in ios, io2 \in ios :
          checkout(d, io1, io2)

\* product_management_menu: one choice of the menu that calls the catalog.
\* Choice 2 asks for the new fields only when the id is a key of the catalog;
\* a field left blank is passed as None.
product_management_menu(ids, names, prices, ios) ==
    \/ \E id \in ids, n \in names, p \in prices, q \in StockInputs, io \in ios :
          add_product(id, n, p, q, io)
    \/ \E id \in ids, n \in Optional(names), p \in Optional(prices),
          q \in Optional(StockInputs), io \in ios :
            /\ id \in DOMAIN products
            /\ update_product(id, n, p, q, io)
    \/ \E id \in ids, io \in ios : delete_product(id, io)

\* A menu whose choice 5 hands checkout the discount that choice 4 computed
\* last.
menu_checkout_kept(io_sales, io_data) ==
    checkout(IF ret.op = "apply_discount" THEN ret.value ELSE 0, io_sales, io_data)

\* billing_menu, choice 5: `billing_system.checkout()`, the discount left at
\* its default of 0.
menu_checkout(io_sales, io_data) == checkout(0, io_sales, io_data)

\* billing_menu: one choice of the menu.  Choices 2 and 4 go back to the menu
\* when the cart is empty; the value apply_discount returns is bound to a
\* local name and not used.
billing_menu(ids, ios) ==
    \/ \E id \in ids, q \in QtyInputs : add_to_cart(id, q)
    \/ \E id \in ids, q \in Optional(RemoveInputs) :
          /\ cart # << >>
          /\ remove_from_cart(id, q)
    \/ view_cart
    \/ \E t \in DiscountTypes, v \in ValueInputs \cup {CartTotal, CartTotal + 1} :
          /\ cart # << >>
          /\ apply_discount(t, v)
    \/ \E io1 \in ios, io2 \in ios : menu_checkout(io1, io2)

\* main: the operator moves between the menus at will.  No menu catches the
\* AttributeError of checkout, so once it is raised the program has ended.
MenuStep(ids, names, prices, ios) ==
    /\ ret.status # "raised"
    /\ \/ product_management_menu(ids, names, prices, ios)
       \/ billing_menu(ids, ios)

\* Two products at one price, on a disk that can always be written.
Next == Step(ProductIds, {"Widget"}, {0, 100}, {"written"})

\* One product whose price changes, on the same disk.
NextPrices == Step({"P1"}, {"Widget"}, PriceInputs, {"written"})

\* One product at one price, on a disk where any rewrite may fail.
NextIO == Step({"P1"}, {"Widget"}, {0, 100}, IoOutcomes)

\* The program as its menus drive it, with the same products and disk as Next.
NextMenu == MenuStep(ProductIds, {"Widget"}, {0, 100}, {"written"})

Spec == Init /\ [][Next]_vars

SpecPrices == Init /\ [][NextPrices]_vars

SpecIO == Init /\ [][NextIO]_vars

SpecMenu == Init /\ [][NextMenu]_vars

\* ------------------------------------------------------------------ claims

\* a <= b between two amounts, neither of them nan.
LessEq(a, b) == ~IsNaN(a) /\ ~IsNaN(b) /\ a <= b

\* The sum of f over the finite set S.
RECURSIVE Sum(_, _)
Sum(f, S) ==
    IF S = {} THEN 0
    ELSE LET x == CHOOSE y \in S : TRUE IN f[x] + Sum(f, S \ {x})

\* The Product object a cart position refers to, and the catalog's stock for
\* that product's id.
LineProduct(i) == heap[lines[cart[i]].product]
CatalogStock(objs, product_id) == objs[products[product_id]].stock_quantity

\* C1: after every successful add_to_cart, the line it created or increased
\* has a quantity of at most the product's stock_quantity.
C1_AddWithinStock ==
    [][ (ret'.op = "add_to_cart" /\ ret'.status = "ok") =>
          \A i \in DOMAIN cart' :
             (i \notin DOMAIN cart \/ lines'[cart'[i]].quantity # lines[cart[i]].quantity)
             => lines'[cart'[i]].quantity
                  <= CatalogStock(heap', heap'[lines'[cart'[i]].product].product_id)
      ]_vars

\* C2: every catalog product has stock_quantity >= 0, in every reachable state.
C2_StockNonNegative ==
    \A id \in DOMAIN products : CatalogStock(heap, id) >= 0

\* The units of product_id in the cart, and the sum of the cart's line totals.
CartQuantity(product_id) ==
    Sum([i \in DOMAIN cart |-> lines[cart[i]].quantity],
        { i \in DOMAIN cart : LineProduct(i).product_id = product_id })
Subtotal == Sum([i \in DOMAIN cart |-> lines[cart[i]].total], DOMAIN cart)

\* C3: a successful checkout lowers the stock of every product by the units
\* of it in the cart (by nothing when it had no line), empties the cart, and
\* returns a Sale whose subtotal is the sum of the line totals and whose
\* final_amount is subtotal - discount.
C3_CheckoutMovesStock ==
    [][ (ret'.op = "checkout" /\ ret'.status = "ok") =>
          /\ products' = products
          /\ \A id \in DOMAIN products :
                CatalogStock(heap', id) = CatalogStock(heap, id) - CartQuantity(id)
          /\ cart' = << >>
          /\ Len(sales') = Len(sales) + 1
          /\ LET sale == sales'[Len(sales')]
             IN  /\ sale.total_amount = Subtotal
                 /\ sale.final_amount = Minus(sale.total_amount, sale.discount)
      ]_vars

\* A checkout has returned a Sale of two units of one product at a discount,
\* while the catalog holds another product too.
C3_Witness ==
    /\ ret.op = "checkout" /\ ret.status = "ok"
    /\ Cardinality(DOMAIN products) = 2
    /\ LET sale == sales[Len(sales)]
       IN  /\ Len(sale.items) = 1
           /\ lines[sale.items[1]].quantity = 2
           /\ sale.discount > 0

\* C4: a catalog call that a check refuses leaves every Product object and
\* the catalog as they were.
C4_RejectedCatalogCallNoMutation ==
    [][ (/\ ret'.op \in {"add_product", "update_product", "delete_product"}
         /\ ret'.status = "rejected")
        => heap' = heap /\ products' = products
      ]_vars

\* C5: the cart total that view_cart prints and apply_discount and checkout
\* use is the sum over the lines of the product's current price times the
\* line's quantity.
C5_CartTotalIsPriceTimesQuantity ==
    CartTotal = Sum([i \in DOMAIN cart |->
                        LineProduct(i).price * lines[cart[i]].quantity],
                    DOMAIN cart)

\* C6: a checkout that is refused changes nothing (cart, catalog, history,
\* both files), and a checkout of an empty cart, or with a discount that is
\* below 0 or above the subtotal, is refused.
C6_RejectedCheckoutNoEffect ==
    [][ ret'.op = "checkout" =>
          /\ ret'.status = "rejected" =>
                UNCHANGED <<heap, products, lines, cart, sales, data_file, sales_file>>
          /\ ret'.status # "rejected" =>
                /\ cart # << >>
                /\ Len(sales') = Len(sales) + 1
                /\ ~Less(sales'[Len(sales')].discount, 0)
                /\ ~Greater(sales'[Len(sales')].discount, Subtotal)
      ]_vars

\* A checkout of a filled cart was refused for its discount and no file has
\* been written for it.
C6_Witness ==
    /\ ret.op = "checkout" /\ ret.status = "rejected"
    /\ cart # << >>
    /\ sales = << >> /\ sales_file.state = "absent"

\* C7: every Sale of the history has 0 <= discount <= subtotal and
\* final_amount = subtotal - discount, hence 0 <= final_amount <= subtotal.
C7_SaleAmounts ==
    \A k \in DOMAIN sales :
        /\ LessEq(0, sales[k].discount)
        /\ LessEq(sales[k].discount, sales[k].total_amount)
        /\ sales[k].final_amount = Minus(sales[k].total_amount, sales[k].discount)
        /\ LessEq(0, sales[k].final_amount)
        /\ LessEq(sales[k].final_amount, sales[k].total_amount)

\* What a Sale of the history shows: the quantity and total of each of its
\* lines, its subtotal, discount and final_amount.
SaleView(objs, history) ==
    [ k \in DOMAIN history |->
        [items |-> [ j \in DOMAIN history[k].items |->
                       [quantity |-> objs[history[k].items[j]].quantity,
                        total |-> objs[history[k].items[j]].total] ],
         total_amount |-> history[k].total_amount,
         discount |-> history[k].discount,
         final_amount |-> history[k].final_amount] ]

\* C8: the history only grows, by one Sale at its end per checkout that
\* returns one, and no call changes a Sale already in it.
C8_HistoryAppendOnly ==
    [][ /\ Len(sales') \in {Len(sales), Len(sales) + 1}
        /\ \A k \in DOMAIN sales :
              SaleView(lines', sales')[k] = SaleView(lines, sales)[k]
        /\ (ret'.op = "checkout" /\ ret'.status = "ok")
              => Len(sales') = Len(sales) + 1
      ]_vars

\* C9: add_to_cart, remove_from_cart, view_cart and apply_discount leave every
\* Product object, the catalog and the sale history as they were.
C9_CartCallsLeaveCatalog ==
    [][ ret'.op \in {"add_to_cart", "remove_from_cart", "view_cart", "apply_discount"}
        => /\ heap' = heap
           /\ products' = products
           /\ SaleView(lines', sales') = SaleView(lines, sales)
      ]_vars

\* C10: remove_from_cart either fails and leaves the cart alone, or takes one
\* line out of the cart, or leaves one line with a strictly smaller, positive
\* quantity and its total recomputed; the other lines are unchanged and no
\* line's quantity grows.
C10_RemoveNeverGrows ==
    [][ ret'.op = "remove_from_cart" =>
          IF ret'.status = "rejected"
          THEN cart' = cart /\ lines' = lines
          ELSE \/ /\ lines' = lines
                  /\ \E i \in DOMAIN cart : cart' = Pop(cart, i)
               \/ /\ cart' = cart
                  /\ \E i \in DOMAIN cart :
                       /\ lines'[cart[i]].quantity < lines[cart[i]].quantity
                       /\ lines'[cart[i]].quantity > 0
                       /\ lines'[cart[i]].total =
                            LineProduct(i).price * lines'[cart[i]].quantity
                       /\ \A j \in DOMAIN lines \ {cart[i]} : lines'[j] = lines[j]
      ]_vars

\* The discount C11 gives for a call: subtotal * value / 100 for a percentage
\* from 0 to 100, value for a fixed amount from 0 to the subtotal, 0 for
\* anything else and for an empty cart.
ExpectedDiscount(discount_type, value) ==
    IF cart = << >> THEN 0
    ELSE IF discount_type = "percentage" /\ LessEq(0, value) /\ LessEq(value, 100)
    THEN (Subtotal * value) \div 100
    ELSE IF discount_type = "fixed" /\ LessEq(0, value) /\ LessEq(value, Subtotal)
    THEN value
    ELSE 0

\* C11: every apply_discount(kind, value) call returns the discount above,
\* which is from 0 to the subtotal, and which checkout does not refuse as an
\* invalid discount for the same cart.
C11_DiscountValue ==
    [][ ret'.op = "apply_discount" =>
          \A t \in DiscountTypes, v \in ValueInputs \cup {CartTotal, CartTotal + 1} :
             apply_discount(t, v) =>
                /\ ret'.value = ExpectedDiscount(t, v)
                /\ LessEq(0, ret'.value) /\ LessEq(ret'.value, Subtotal)
                /\ ~DiscountRejected(ret'.value, CartTotal)
      ]_vars

\* The catalog stock of every product that has a cart line and is still a key
\* of the catalog goes down by the units of it in the cart.
StockMoved ==
    \A i \in DOMAIN cart :
       LET id == LineProduct(i).product_id
       IN  id \in DOMAIN products =>
              /\ id \in DOMAIN products'
              /\ heap'[products'[id]].stock_quantity
                    = CatalogStock(heap, id) - CartQuantity(id)

\* A checkout that was not refused ran to its end: it returned the Sale it
\* appended, moved the stock of every line and left the cart empty.
Completed ==
    /\ ret'.status = "ok"
    /\ Len(sales') = Len(sales) + 1
    /\ StockMoved
    /\ cart' = << >>

\* C12: every checkout of a filled cart with a discount from 0 to the
\* subtotal, whatever catalog and cart calls came before, appends the Sale,
\* lowers the stock of every cart line and empties the cart; no Sale of the
\* history has a line that is still in the cart.
C12_CheckoutAtomic ==
    [][ (/\ ret'.op = "checkout"
         /\ ret'.status # "rejected"
         /\ LessEq(0, sales'[Len(sales')].discount)
         /\ LessEq(sales'[Len(sales')].discount, Subtotal))
        => /\ Completed
           /\ \A k \in DOMAIN sales' :
                 \A j \in DOMAIN sales'[k].items, i \in DOMAIN cart' :
                    sales'[k].items[j] # cart'[i]
      ]_vars

\* C13: a call whose file rewrite fails keeps its in-memory change.
\* add_product, update_product and delete_product return failure with the
\* product inserted, the supplied fields updated or the key removed; a
\* checkout whose save_sales or save_data fails still appends the Sale, lowers
\* the stock, empties the cart and returns the Sale.
C13_SaveFailureKeepsChange ==
    [][ /\ ret'.op = "add_product" =>
              \A id \in ProductIds, n \in {"Widget"}, p \in PriceInputs,
                 q \in StockInputs, io \in IoOutcomes \ {"written"} :
                 (add_product(id, n, p, q, io) /\ ret'.status # "rejected")
                 => /\ ret'.status = "save_failed"
                    /\ id \in DOMAIN products' \ DOMAIN products
                    /\ heap'[products'[id]] = Product(id, n, p, q)
        /\ ret'.op = "update_product" =>
              \A id \in ProductIds, n \in Optional({"Widget"}), p \in Optional(PriceInputs),
                 q \in Optional(StockInputs), io \in IoOutcomes \ {"written"} :
                 (update_product(id, n, p, q, io) /\ ret'.status # "rejected")
                 => /\ ret'.status = "save_failed"
                    /\ products' = products
                    /\ LET old == heap[products[id]]
                           new == heap'[products[id]]
                       IN  /\ new.name = IF n = None THEN old.name ELSE Val(n)
                           /\ new.price = IF p = None THEN old.price ELSE Val(p)
                           /\ new.stock_quantity =
                                 IF q = None THEN old.stock_quantity ELSE Val(q)
        /\ ret'.op = "delete_product" =>
              \A id \in ProductIds, io \in IoOutcomes \ {"written"} :
                 (delete_product(id, io) /\ ret'.status # "rejected")
                 => /\ ret'.status = "save_failed"
                    /\ DOMAIN products' = DOMAIN products \ {id}
        /\ ret'.op = "checkout" =>
              \A d \in DiscountInputs(CartTotal), io1 \in IoOutcomes, io2 \in IoOutcomes :
                 (/\ checkout(d, io1, io2)
                  /\ ret'.status # "rejected"
                  /\ io1 # "written" \/ (io2 # "written" /\ ret'.status = "ok"))
                 => Completed
      ]_vars

====
